---- MODULE Spec2Model ----
(***************************************************************************)
(* Model of the event-by-slug endpoint (app/api/events/[slug]/route.ts)    *)
(* and of the cached mongoose connection helper (lib/mongoose, connectDB). *)
(*                                                                         *)
(* Execution model: the JavaScript event loop.  Every action is one job.   *)
(* A job runs an async function from one await to the next; continuations  *)
(* of awaits are queued FIFO in `microtasks`.  Settling a promise queues   *)
(* the reactions of all its awaiters together, in registration order.      *)
(* A caller that awaits an already settled promise gets its continuation   *)
(* queued at once, behind whatever is queued at that moment.  When the     *)
(* host invokes GET and when mongoose.connect or a query settles is not    *)
(* decided by this code: both may happen between any two jobs.             *)
(***************************************************************************)
EXTENDS Integers, Sequences, FiniteSets, TLC

\* ---------------------------------------------------------------- bounds
NumRequests == 4
NumLiveRequests == 3
MaxSlugLen == 3

Requests == 1..NumRequests

\* ------------------------------------------------------- JavaScript values
Lower == {"a","b","c","d","e","f","g","h","i","j","k","l","m",
          "n","o","p","q","r","s","t","u","v","w","x","y","z"}
Digit == {"0","1","2","3","4","5","6","7","8","9"}
Whitespace == {" ", "\t", "\n", "\r"}

Str(chars) == [t |-> "string", n |-> 0, v |-> chars]
Undefined == [t |-> "undefined", n |-> 0, v |-> <<>>]
JsNull == [t |-> "null", n |-> 0, v |-> <<>>]
Num(k) == [t |-> "number", n |-> k, v |-> <<>>]

\* JavaScript truthiness of a value: undefined, null, 0 and "" are falsy.
Truthy(x) ==
    CASE x.t \in {"undefined", "null"} -> FALSE
      [] x.t = "number" -> x.n # 0
      [] OTHER -> x.v # <<>>

\* String.prototype.trim: strip whitespace at both ends.
RECURSIVE TrimStart(_)
TrimStart(s) ==
    IF s # <<>> /\ Head(s) \in Whitespace THEN TrimStart(Tail(s)) ELSE s

RECURSIVE TrimEnd(_)
TrimEnd(s) ==
    IF s # <<>> /\ s[Len(s)] \in Whitespace
    THEN TrimEnd(SubSeq(s, 1, Len(s) - 1)) ELSE s

Trim(s) == TrimEnd(TrimStart(s))

SlugMissing_notrim(x) == (~Truthy(x)) \/ x.t # "string"
\* route.ts line 29: !slug || typeof slug !== "string" || slug.trim() === ""
SlugMissing(x) == (~Truthy(x)) \/ x.t # "string" \/ Trim(x.v) = <<>>

\* route.ts lines 40-41: /^[a-z0-9]+(?:-[a-z0-9]+)*$/.test(slug), run as the
\* automaton of the expression: q is "start" (nothing read), "seg" (inside a
\* segment) or "hyphen" (a hyphen was just read).
RECURSIVE SlugAutomaton(_, _, _)
SlugAutomaton(s, i, q) ==
    IF i > Len(s) THEN q = "seg"
    ELSE IF s[i] \in Lower \cup Digit THEN SlugAutomaton(s, i + 1, "seg")
    ELSE IF s[i] = "-" /\ q = "seg" THEN SlugAutomaton(s, i + 1, "hyphen")
    ELSE FALSE

SlugPatternTest_trailing(s) == s # <<>> /\ SlugAutomaton(s \o <<"a">>, 1, "start")
SlugPatternTest(s) == SlugAutomaton(s, 1, "start")

\* ------------------------------------------------------------- responses
MissingMsg == "Invalid or missing slug parameter"
MalformedMsg == "Invalid slug format. Slug must be lowercase alphanumeric with hyphens."
NotFoundMsg == "Event not found"
ServerErrorMsg == "An unexpected error occurred while fetching the event"

ErrorBody(msg) == [success |-> FALSE, error |-> msg]

NoResponse == [status |-> 0, body |-> [success |-> FALSE]]
MissingResponse == [status |-> 400, body |-> ErrorBody(MissingMsg)]
MalformedResponse == [status |-> 400, body |-> ErrorBody(MalformedMsg)]
NotFoundResponse == [status |-> 404, body |-> ErrorBody(NotFoundMsg)]
OkResponse(event) == [status |-> 200, body |-> [success |-> TRUE, event |-> event]]

ServerErrorResponse_leak(error) == [status |-> 500, body |-> ErrorBody(error)]
\* route.ts lines 77-88: the catch block ignores what was thrown.
ServerErrorResponse(error) == [status |-> 500, body |-> ErrorBody(ServerErrorMsg)]

\* ------------------------------------------------------------- the store
\* Event documents; the slug field is unique within a collection.
Docs == { [slug |-> <<"a">>, title |-> "t1"],
          [slug |-> <<"a">>, title |-> "t2"],
          [slug |-> <<"a", "-", "0">>, title |-> "t3"] }

UniqueSlugs(st) == \A d, e \in st : d.slug = e.slug => d = e

\* Model.findOne(filter).lean(): a plain copy of one document whose fields
\* equal those of the filter, as a set: empty when the query yields null.
FindOne(st, filter) ==
    LET matching == {d \in st : \A k \in DOMAIN filter : d[k] = filter[k]}
    IN IF matching = {} THEN {} ELSE {CHOOSE d \in matching : TRUE}

EventQuery_nofilter(st, s) == FindOne(st, [k \in {} |-> s])
\* route.ts line 56: Event.findOne({ slug }).lean()
EventQuery(st, s) == FindOne(st, [slug |-> s])

QueryResponse_notfound200(l) ==
    IF l.kind = "error" THEN ServerErrorResponse(l.error)
    ELSE IF l.docs = {} THEN [status |-> 200, body |-> ErrorBody(NotFoundMsg)]
    ELSE OkResponse(CHOOSE d \in l.docs : TRUE)
\* route.ts lines 58-88: the response once the query has settled
QueryResponse(l) ==
    IF l.kind = "error" THEN ServerErrorResponse(l.error)
    ELSE IF l.docs = {} THEN NotFoundResponse
    ELSE OkResponse(CHOOSE d \in l.docs : TRUE)

\* --------------------------------------------------------- request inputs
SlugAlphabet == {"a", "0", "-", "A", " ", "_"}

RECURSIVE StringsUpTo(_)
StringsUpTo(k) ==
    IF k = 0 THEN {<<>>}
    ELSE LET shorter == StringsUpTo(k - 1)
         IN shorter \cup {Append(s, c) : s \in shorter, c \in SlugAlphabet}

\* every value the validation may be handed
AllSlugs == {Undefined, JsNull, Num(0), Num(42)} \cup {Str(s) : s \in StringsUpTo(MaxSlugLen)}

\* the values concurrent requests carry: a malformed slug and a well-formed
\* one, which the store may or may not hold
SlugInputs == {Str(<<"A">>), Str(<<"a">>)}

\* ------------------------------------------------------------------ state
VARIABLES
    MONGODB_URI,  \* process.env.MONGODB_URI ("" when not defined)
    store,        \* the Event collection
    cached,       \* the MongooseCache: conn and promise, 0 for null
    attempts,     \* promises returned by mongoose.connect(...).then(...), in
                  \* the order started: state and awaiters not yet notified
    microtasks,   \* FIFO queue of continuations ready to run
    pc,           \* where each GET invocation is suspended
    slug,         \* the params.slug of each request
    awaited,      \* the promise a connectDB call awaits on line 68 (0: none)
    connResult,   \* how the request's connectDB() call settled
    lookup,       \* the request's Event.findOne query
    resp,         \* the NextResponse returned by GET
    calls,        \* number of connectDB() calls made by each request
    queries       \* number of findOne queries issued by each request

vars == <<MONGODB_URI, store, cached, attempts, microtasks, pc, slug, awaited,
          connResult, lookup, resp, calls, queries>>

Null == 0

Job(kind, r) == [kind |-> kind, r |-> r]

NoResult == [kind |-> "none", handle |-> Null, error |-> ""]
Returned(h) == [kind |-> "returned", handle |-> h, error |-> ""]
Threw(e) == [kind |-> "threw", handle |-> Null, error |-> e]

\* what attempt i resolves with: mongoose.connect resolves with the mongoose
\* module object itself (Promise<typeof mongoose>), the same for every attempt
Mongoose == 1
HandleOf(i) == Mongoose
\* what attempt i rejects with
ConnectErrorOf(i) == "MongooseServerSelectionError#" \o ToString(i)
ConfigError == "Please define the MONGODB_URI environment variable inside .env"
QueryError == "MongoServerError: query failed"

NoLookup == [kind |-> "none", docs |-> {}, error |-> ""]
PendingLookup == [kind |-> "pending", docs |-> {}, error |-> ""]
LookupResult(docs) == [kind |-> "result", docs |-> docs, error |-> ""]
LookupFailed == [kind |-> "error", docs |-> {}, error |-> QueryError]

UriMissing_onlyundefined(uri) == FALSE
\* lib/mongoose lines 19 and 54: !MONGODB_URI, true of the empty string that
\* stands for a variable that is not defined
UriMissing(uri) == uri = ""

\* lib/mongoose lines 16-23: the module throws while loading when the
\* variable is not defined, so connectDB and the route that imports it
\* never come to exist.
ModuleLoaded == ~UriMissing(MONGODB_URI)

Init ==
    /\ MONGODB_URI \in {"", "mongodb://db/events"}
    /\ store \in {st \in SUBSET Docs : UniqueSlugs(st)}
    /\ cached = [conn |-> Null, promise |-> Null]
    /\ attempts = <<>>
    /\ microtasks = <<>>
    /\ pc = [r \in Requests |-> "idle"]
    /\ slug = [r \in Requests |-> Undefined]
    /\ awaited = [r \in Requests |-> Null]
    /\ connResult = [r \in Requests |-> NoResult]
    /\ lookup = [r \in Requests |-> NoLookup]
    /\ resp = [r \in Requests |-> NoResponse]
    /\ calls = [r \in Requests |-> 0]
    /\ queries = [r \in Requests |-> 0]

\* ------------------------------------------------------------- connectDB
ConnectDBEntry_nopending(c) ==
    IF c.conn # Null THEN "hit" ELSE "start"
ConnectDBEntry_nocache(c) == "start"
\* lines 44-49: which way a call goes through the two cache checks
ConnectDBEntry(c) ==
    IF c.conn # Null THEN "hit"
    ELSE IF c.promise = Null THEN "start"
    ELSE "join"

ConnectDBResume_norethrow(c, settled, i) ==
    IF settled = "fulfilled"
    THEN [cache |-> [c EXCEPT !.conn = HandleOf(i)], result |-> Returned(HandleOf(i))]
    ELSE [cache |-> [c EXCEPT !.promise = Null], result |-> Returned(c.conn)]
ConnectDBResume_resetall(c, settled, i) ==
    IF settled = "fulfilled"
    THEN [cache |-> [c EXCEPT !.conn = HandleOf(i)], result |-> Returned(HandleOf(i))]
    ELSE [cache |-> [conn |-> Null, promise |-> Null],
          result |-> Threw(ConnectErrorOf(i))]
\* lines 66-75: the continuation of `cached.conn = await cached.promise`
\* once promise i has settled; the new cache and how the call settles
ConnectDBResume(c, settled, i) ==
    IF settled = "fulfilled"
    THEN LET c1 == [c EXCEPT !.conn = HandleOf(i)]
         IN [cache |-> c1, result |-> Returned(c1.conn)]
    ELSE [cache |-> [c EXCEPT !.promise = Null], result |-> Threw(ConnectErrorOf(i))]

ConnectDBCall_noawait(r, rest) ==
    LET path == ConnectDBEntry(cached)
        started == IF path = "start"
                   THEN Append(attempts, [state |-> "pending", waiters |-> <<>>])
                   ELSE attempts
        p == IF path = "start" THEN Len(started) ELSE cached.promise
    IN /\ calls' = [calls EXCEPT ![r] = @ + 1]
       /\ pc' = [pc EXCEPT ![r] = "awaitConnect"]
       /\ microtasks' = Append(rest, Job("afterConnect", r))
       /\ IF path = "hit"
          THEN /\ connResult' = [connResult EXCEPT ![r] = Returned(cached.conn)]
               /\ UNCHANGED <<cached, attempts, awaited>>
          ELSE /\ attempts' = started
               /\ cached' = [conn |-> HandleOf(p), promise |-> p]
               /\ awaited' = [awaited EXCEPT ![r] = p]
               /\ connResult' = [connResult EXCEPT ![r] = Returned(HandleOf(p))]
\* lines 42-68: connectDB() called by request r, run up to its first await
\* (or to its return); `rest` is the microtask queue behind the running job
ConnectDBCall(r, rest) ==
    LET path == ConnectDBEntry(cached) IN
    /\ calls' = [calls EXCEPT ![r] = @ + 1]
    /\ pc' = [pc EXCEPT ![r] = IF path = "hit" \/ (path = "start" /\ UriMissing(MONGODB_URI))
                                THEN "awaitConnect" ELSE "awaitPromise"]
    /\ IF path = "hit"
       THEN /\ connResult' = [connResult EXCEPT ![r] = Returned(cached.conn)]
            /\ microtasks' = Append(rest, Job("afterConnect", r))
            /\ UNCHANGED <<cached, attempts, awaited>>
       ELSE IF path = "start" /\ UriMissing(MONGODB_URI)
       THEN /\ connResult' = [connResult EXCEPT ![r] = Threw(ConfigError)]
            /\ microtasks' = Append(rest, Job("afterConnect", r))
            /\ UNCHANGED <<cached, attempts, awaited>>
       ELSE LET started == IF path = "start"
                           THEN Append(attempts, [state |-> "pending", waiters |-> <<>>])
                           ELSE attempts
                p == IF path = "start" THEN Len(started) ELSE cached.promise
            IN /\ cached' = [cached EXCEPT !.promise = p]
               /\ awaited' = [awaited EXCEPT ![r] = p]
               /\ IF started[p].state = "pending"
                  THEN /\ attempts' = [started EXCEPT ![p].waiters = Append(@, r)]
                       /\ microtasks' = rest
                  ELSE /\ attempts' = started
                       /\ microtasks' = Append(rest, Job("resume", r))
               /\ UNCHANGED connResult

\* ------------------------------------------------------------ GET handler
\* lines 20-26: GET is invoked and suspends on `await params`
GETStart(r, s) ==
    /\ ModuleLoaded
    /\ pc[r] = "idle"
    /\ slug' = [slug EXCEPT ![r] = s]
    /\ pc' = [pc EXCEPT ![r] = "awaitParams"]
    /\ microtasks' = Append(microtasks, Job("params", r))
    /\ UNCHANGED <<MONGODB_URI, store, cached, attempts, awaited, connResult,
                   lookup, resp, calls, queries>>

Respond(r, response) ==
    /\ resp' = [resp EXCEPT ![r] = response]
    /\ pc' = [pc EXCEPT ![r] = "done"]

\* lines 28-53: validation, then the call of connectDB
ParamsJob(r) ==
    /\ microtasks # <<>>
    /\ Head(microtasks) = Job("params", r)
    /\ IF SlugMissing(slug[r])
       THEN /\ Respond(r, MissingResponse)
            /\ microtasks' = Tail(microtasks)
            /\ UNCHANGED <<cached, attempts, awaited, connResult, calls>>
       ELSE IF ~SlugPatternTest(slug[r].v)
       THEN /\ Respond(r, MalformedResponse)
            /\ microtasks' = Tail(microtasks)
            /\ UNCHANGED <<cached, attempts, awaited, connResult, calls>>
       ELSE /\ ConnectDBCall(r, Tail(microtasks))
            /\ UNCHANGED resp
    /\ UNCHANGED <<MONGODB_URI, store, slug, lookup, queries>>

\* lib/mongoose lines 66-75: connectDB resumes after its await
ResumeJob(r) ==
    /\ microtasks # <<>>
    /\ Head(microtasks) = Job("resume", r)
    /\ LET next == ConnectDBResume(cached, attempts[awaited[r]].state, awaited[r])
       IN /\ cached' = next.cache
          /\ connResult' = [connResult EXCEPT ![r] = next.result]
    /\ microtasks' = Append(Tail(microtasks), Job("afterConnect", r))
    /\ pc' = [pc EXCEPT ![r] = "awaitConnect"]
    /\ UNCHANGED <<MONGODB_URI, store, attempts, slug, awaited, lookup, resp,
                   calls, queries>>

AfterConnectJob_retry(r) ==
    /\ microtasks # <<>>
    /\ Head(microtasks) = Job("afterConnect", r)
    /\ IF connResult[r].kind = "threw" /\ calls[r] < 2
       THEN /\ ConnectDBCall(r, Tail(microtasks))
            /\ UNCHANGED <<lookup, queries, resp>>
       ELSE /\ microtasks' = Tail(microtasks)
            /\ UNCHANGED <<cached, attempts, awaited, connResult, calls>>
            /\ IF connResult[r].kind = "threw"
               THEN /\ Respond(r, ServerErrorResponse(connResult[r].error))
                    /\ UNCHANGED <<lookup, queries>>
               ELSE /\ lookup' = [lookup EXCEPT ![r] = PendingLookup]
                    /\ queries' = [queries EXCEPT ![r] = @ + 1]
                    /\ pc' = [pc EXCEPT ![r] = "awaitQuery"]
                    /\ UNCHANGED resp
    /\ UNCHANGED <<MONGODB_URI, store, slug>>
\* route.ts lines 53-56 and 77-88: GET resumes after `await connectDB()`
AfterConnectJob(r) ==
    /\ microtasks # <<>>
    /\ Head(microtasks) = Job("afterConnect", r)
    /\ microtasks' = Tail(microtasks)
    /\ IF connResult[r].kind = "threw"
       THEN /\ Respond(r, ServerErrorResponse(connResult[r].error))
            /\ UNCHANGED <<lookup, queries>>
       ELSE /\ lookup' = [lookup EXCEPT ![r] = PendingLookup]
            /\ queries' = [queries EXCEPT ![r] = @ + 1]
            /\ pc' = [pc EXCEPT ![r] = "awaitQuery"]
            /\ UNCHANGED resp
    /\ UNCHANGED <<MONGODB_URI, store, cached, attempts, slug, awaited,
                   connResult, calls>>

AfterQueryJob_stamped(r) ==
    /\ microtasks # <<>>
    /\ Head(microtasks) = Job("afterQuery", r)
    /\ microtasks' = Tail(microtasks)
    /\ LET base == QueryResponse(lookup[r])
       IN Respond(r, IF base.status = 200
                     THEN [base EXCEPT !.body = [success |-> TRUE,
                                                 event |-> base.body.event,
                                                 requestId |-> r]]
                     ELSE base)
    /\ UNCHANGED <<MONGODB_URI, store, cached, attempts, slug, awaited,
                   connResult, lookup, calls, queries>>
\* route.ts lines 56-88: GET resumes after the query settled
AfterQueryJob(r) ==
    /\ microtasks # <<>>
    /\ Head(microtasks) = Job("afterQuery", r)
    /\ microtasks' = Tail(microtasks)
    /\ Respond(r, QueryResponse(lookup[r]))
    /\ UNCHANGED <<MONGODB_URI, store, cached, attempts, slug, awaited,
                   connResult, lookup, calls, queries>>

\* ------------------------------------------------------------ environment
\* mongoose.connect settles: promise i is fulfilled or rejected and the
\* reactions of all its awaiters are queued, in order
ConnectSettle(i, ok) ==
    /\ attempts[i].state = "pending"
    /\ attempts' = [attempts EXCEPT ![i] =
                      [state |-> IF ok THEN "fulfilled" ELSE "rejected",
                       waiters |-> <<>>]]
    /\ microtasks' = microtasks \o
                       [k \in 1..Len(attempts[i].waiters) |->
                           Job("resume", attempts[i].waiters[k])]
    /\ UNCHANGED <<MONGODB_URI, store, cached, pc, slug, awaited, connResult,
                   lookup, resp, calls, queries>>

\* the database answers the query of request r, or the query fails
QuerySettle(r, ok) ==
    /\ pc[r] = "awaitQuery"
    /\ lookup[r].kind = "pending"
    /\ lookup' = [lookup EXCEPT ![r] =
                    IF ok THEN LookupResult(EventQuery(store, slug[r].v))
                    ELSE LookupFailed]
    /\ microtasks' = Append(microtasks, Job("afterQuery", r))
    /\ UNCHANGED <<MONGODB_URI, store, cached, attempts, pc, slug, awaited,
                   connResult, resp, calls, queries>>

Environment ==
    \/ \E i \in 1..Len(attempts), ok \in BOOLEAN : ConnectSettle(i, ok)
    \/ \E r \in Requests, ok \in BOOLEAN : QuerySettle(r, ok)

RunMicrotask ==
    \/ \E r \in Requests : ParamsJob(r)
    \/ \E r \in Requests : ResumeJob(r)
    \/ \E r \in Requests : AfterConnectJob(r)
    \/ \E r \in Requests : AfterQueryJob(r)

\* concurrent requests, numbered in the order they arrive, each carrying one
\* of SlugInputs
Next ==
    \/ \E r \in Requests, s \in SlugInputs :
          (\A q \in 1..(r - 1) : pc[q] # "idle") /\ GETStart(r, s)
    \/ RunMicrotask
    \/ Environment

Spec == Init /\ [][Next]_vars

\* the first NumLiveRequests requests only
NextLive ==
    \/ \E r \in 1..NumLiveRequests, s \in SlugInputs :
          (\A q \in 1..(r - 1) : pc[q] # "idle") /\ GETStart(r, s)
    \/ RunMicrotask
    \/ Environment

\* every queued job is run, and every started mongoose.connect and every
\* issued query eventually settles; requests need not keep arriving
FairSpec ==
    Init /\ [][NextLive]_vars /\ WF_vars(RunMicrotask) /\ WF_vars(Environment)

\* validation over every value of AllSlugs: request 1 carries any of them,
\* next to one concurrent request carrying one of SlugInputs
NextValidate ==
    \/ \E s \in AllSlugs : GETStart(1, s)
    \/ \E s \in SlugInputs : GETStart(2, s)
    \/ RunMicrotask
    \/ Environment

SpecValidate == Init /\ [][NextValidate]_vars

\* =================================================================== claims
Callers == {r \in Requests : calls[r] > 0}
Pending == {i \in 1..Len(attempts) : attempts[i].state = "pending"}
Done(r) == pc[r] = "done"

\* the accepted pattern, stated on the shape of the string: non-empty, only
\* lowercase letters, digits and hyphens, no hyphen first or last, no two
\* hyphens in a row
MatchesPattern(s) ==
    /\ Len(s) >= 1
    /\ \A i \in 1..Len(s) : s[i] \in Lower \cup Digit \cup {"-"}
    /\ s[1] # "-"
    /\ s[Len(s)] # "-"
    /\ \A i \in 1..(Len(s) - 1) : ~(s[i] = "-" /\ s[i + 1] = "-")

ValidSlug(x) == x.t = "string" /\ MatchesPattern(x.v)
Blank(x) == x.t # "string" \/ \A i \in 1..Len(x.v) : x.v[i] \in Whitespace
Stored(x) == {d \in store : d.slug = x.v}

\* C1: from a cold cache, as long as no establishment attempt has resolved,
\* however many connectDB calls have arrived, exactly one mongoose.connect
\* has been started.
C1_OneConnectForConcurrentCalls ==
    (Callers # {} /\ \A i \in 1..Len(attempts) : attempts[i].state = "pending")
        => Len(attempts) = 1

C1_Witness ==
    /\ Cardinality(Callers) >= 2
    /\ Len(attempts) = 1
    /\ attempts[1].state = "pending"
    /\ \A r \in Callers : awaited[r] = 1

\* C2: in every reachable state at most one establishment operation is
\* started and not yet resolved.
C2_AtMostOnePending == Cardinality(Pending) <= 1

\* C3: every caller that awaited attempt i and has settled observed the
\* outcome of attempt i: the handle of i if i succeeded, the failure of i if
\* i failed.
C3_AwaitersShareOutcome ==
    \A r \in Requests :
        (awaited[r] # Null /\ connResult[r].kind # "none") =>
            /\ attempts[awaited[r]].state = "fulfilled"
                   => connResult[r] = Returned(HandleOf(awaited[r]))
            /\ attempts[awaited[r]].state = "rejected"
                   => connResult[r] = Threw(ConnectErrorOf(awaited[r]))

C3_Witness ==
    \E r1, r2 \in Requests :
        /\ r1 # r2
        /\ awaited[r1] # Null
        /\ awaited[r1] = awaited[r2]
        /\ attempts[awaited[r1]].state = "rejected"
        /\ connResult[r1].kind = "threw"
        /\ connResult[r2].kind = "threw"

\* the latest attempt failed and every caller awaiting it has resumed
FailureHandled(i) ==
    /\ i = Len(attempts)
    /\ attempts[i].state = "rejected"
    /\ \A r \in Requests : awaited[r] = i => connResult[r].kind # "none"

\* C4: once an attempt has failed and its awaiters have handled the failure,
\* the cache holds neither a handle nor a pending attempt, and the next
\* connectDB call starts a fresh establishment operation.
C4_FailureResetsCache ==
    [][\A i \in 1..Len(attempts) :
          FailureHandled(i) =>
              /\ cached = [conn |-> Null, promise |-> Null]
              /\ calls' # calls =>
                    /\ Len(attempts') = Len(attempts) + 1
                    /\ attempts'[Len(attempts')].state = "pending"
                    /\ cached'.promise = Len(attempts')]_vars

\* C5: once cached.conn is set it stays that handle, no further establishment
\* operation is started, and every connectDB call returns the cached handle.
C5_CachedHandleReused ==
    [][cached.conn # Null =>
          /\ cached'.conn = cached.conn
          /\ Len(attempts') = Len(attempts)
          /\ \A r \in Requests :
                calls'[r] # calls[r] => connResult'[r] = Returned(cached.conn)]_vars

C5_Witness ==
    \E r \in Requests :
        /\ calls[r] = 1
        /\ awaited[r] = Null
        /\ cached.conn # Null
        /\ connResult[r] = Returned(cached.conn)

\* C6: a request whose slug is a string failing the pattern is answered with
\* status 400 without having called connectDB or issued a query, and the step
\* that answers it leaves the connection cache as it was.
C6_InvalidSlugNoIO ==
    [][\A r \in Requests :
          (~Done(r) /\ Done(r)' /\ slug[r].t = "string" /\ ~MatchesPattern(slug[r].v)) =>
              /\ resp'[r].status = 400
              /\ calls'[r] = 0
              /\ queries'[r] = 0
              /\ cached' = cached
              /\ attempts' = attempts]_vars

C6_Witness ==
    /\ Done(1)
    /\ slug[1] = Str(<<"a", "-">>)
    /\ resp[1].status = 400
    /\ calls[1] = 0
    /\ cached.promise # Null

\* C7 as stated: every answered request for a well-formed slug present in the
\* store got 200 with the stored document.
C7_Original ==
    \A r \in Requests :
        (Done(r) /\ ValidSlug(slug[r]) /\ Stored(slug[r]) # {}) =>
            \E d \in Stored(slug[r]) : resp[r] = OkResponse(d)

\* C7: every request for a well-formed slug present in the store, whose
\* connectDB call returned and whose lookup completed, is answered 200 with
\* body {success: true, event: D}, D the stored document with that slug.
C7_FoundReturnsDocument ==
    \A r \in Requests :
        (/\ Done(r) /\ ValidSlug(slug[r]) /\ Stored(slug[r]) # {}
         /\ connResult[r].kind = "returned" /\ lookup[r].kind = "result") =>
            /\ Cardinality(Stored(slug[r])) = 1
            /\ \A d \in Stored(slug[r]) : resp[r] = OkResponse(d)

C7_Witness ==
    /\ Done(1)
    /\ slug[1] = Str(<<"a", "-", "0">>)
    /\ Cardinality(store) = 2
    /\ resp[1].status = 200
    /\ resp[1].body.event.slug = <<"a", "-", "0">>

\* C8: a request for a well-formed slug whose lookup completed and matched no
\* document is answered 404 with {success: false, error: "Event not found"}.
C8_AbsentReturns404 ==
    \A r \in Requests :
        (/\ Done(r) /\ ValidSlug(slug[r]) /\ lookup[r].kind = "result"
         /\ Stored(slug[r]) = {}) =>
            /\ resp[r].status = 404
            /\ resp[r].body = [success |-> FALSE, error |-> "Event not found"]

C8_Witness ==
    /\ Done(1)
    /\ slug[1] = Str(<<"a", "-", "0">>)
    /\ store # {}
    /\ lookup[1].kind = "result"
    /\ resp[1].status = 404

\* C9: a request whose connectDB call threw or whose lookup failed is answered
\* 500 with the one fixed body, whatever was thrown.
C9_FailureReturnsGeneric500 ==
    \A r \in Requests :
        (Done(r) /\ (connResult[r].kind = "threw" \/ lookup[r].kind = "error")) =>
            /\ resp[r].status = 500
            /\ resp[r].body =
                 [success |-> FALSE,
                  error |-> "An unexpected error occurred while fetching the event"]

C9_Witness ==
    \E r1, r2 \in Requests :
        /\ Done(r1) /\ connResult[r1].kind = "threw"
        /\ Done(r2) /\ lookup[r2].kind = "error"
        /\ resp[r1] = resp[r2]
        /\ resp[r1].status = 500

\* C10: an absent, non-string or blank slug is answered 400 with the
\* "missing" message, a non-blank string failing the pattern is answered 400
\* with the "malformed" message, and the two messages differ.
C10_MissingVersusMalformed ==
    /\ MissingMsg # MalformedMsg
    /\ \A r \in Requests :
          Done(r) =>
              /\ Blank(slug[r]) =>
                    resp[r] = [status |-> 400,
                               body |-> [success |-> FALSE,
                                         error |-> "Invalid or missing slug parameter"]]
              /\ (~Blank(slug[r]) /\ ~ValidSlug(slug[r])) =>
                    resp[r] = [status |-> 400, body |-> ErrorBody(MalformedMsg)]

C10_Witness ==
    /\ Done(1) /\ slug[1] = Str(<<" ", " ">>) /\ resp[1].body.error = MissingMsg
    /\ Done(2) /\ slug[2] = Str(<<"A">>) /\ resp[2].body.error = MalformedMsg

\* C11: when MONGODB_URI is not defined the module fails to load, no
\* connectDB call and no establishment operation is ever started, and the
\* cache holds neither a pending attempt nor a handle.
C11_NoConnectWithoutUri ==
    MONGODB_URI = "" =>
        /\ attempts = <<>>
        /\ cached = [conn |-> Null, promise |-> Null]
        /\ \A r \in Requests : calls[r] = 0 /\ pc[r] = "idle"

C11_Witness ==
    /\ MONGODB_URI = ""
    /\ ~ModuleLoaded
    /\ attempts = <<>>

\* C12 as stated: any two answered requests for the same well-formed slug
\* present in the store got identical responses.
C12_Original ==
    \A r1, r2 \in Requests :
        (/\ Done(r1) /\ Done(r2) /\ slug[r1] = slug[r2]
         /\ ValidSlug(slug[r1]) /\ Stored(slug[r1]) # {}) =>
            resp[r1] = resp[r2]

\* C12: any two answered requests for the same well-formed slug present in
\* the store, both of whose connectDB calls returned and lookups completed,
\* got identical responses: same status, same success flag, same document.
C12_RepeatedGetIdentical ==
    \A r1, r2 \in Requests :
        (/\ Done(r1) /\ Done(r2) /\ slug[r1] = slug[r2]
         /\ ValidSlug(slug[r1]) /\ Stored(slug[r1]) # {}
         /\ connResult[r1].kind = "returned" /\ lookup[r1].kind = "result"
         /\ connResult[r2].kind = "returned" /\ lookup[r2].kind = "result") =>
            /\ resp[r1].status = resp[r2].status
            /\ resp[r1].body = resp[r2].body

C12_Witness ==
    \E r1, r2 \in Requests :
        /\ r1 # r2
        /\ Done(r1) /\ Done(r2)
        /\ slug[r1] = slug[r2]
        /\ resp[r1].status = 200
        /\ resp[r2] = resp[r1]
        /\ awaited[r1] # Null /\ awaited[r2] = Null

\* C13: whenever an establishment operation is in flight, cached.promise
\* refers to it; no catch block of an earlier, failed attempt unsets it.
C13_PendingAttemptIsCached ==
    \A i \in Pending : cached.promise = i

\* C14: a request has issued its lookup only if its connectDB call returned a
\* handle from the cache or from a fulfilled attempt; a request whose
\* connectDB call threw has issued no lookup.
C14_LookupAfterConnect ==
    \A r \in Requests :
        /\ queries[r] > 0 =>
              /\ connResult[r].kind = "returned"
              /\ connResult[r].handle # Null
              /\ awaited[r] # Null => attempts[awaited[r]].state = "fulfilled"
        /\ connResult[r].kind = "threw" => queries[r] = 0 /\ lookup[r] = NoLookup

C14_Witness ==
    \E r1, r2 \in Requests :
        /\ Done(r1) /\ connResult[r1].kind = "threw" /\ queries[r1] = 0
        /\ queries[r2] = 1 /\ awaited[r2] # Null
        /\ attempts[awaited[r2]].state = "fulfilled"

\* C15: every request calls connectDB at most once and issues at most one
\* lookup, also after a connection or lookup failure.
C15_OneAttemptPerRequest ==
    \A r \in Requests :
        /\ calls[r] <= 1
        /\ queries[r] <= 1
        /\ queries[r] <= calls[r]

C15_Witness ==
    \E r1, r2 \in Requests :
        /\ Done(r1) /\ connResult[r1].kind = "threw"
        /\ calls[r1] = 1 /\ queries[r1] = 0
        /\ Done(r2) /\ lookup[r2].kind = "error"
        /\ calls[r2] = 1 /\ queries[r2] = 1

\* C16: no connectDB call that awaits an attempt has returned or thrown while
\* that attempt is pending; a response, once produced, is never replaced;
\* and every request that was started is eventually answered.
C16_WaitThenAnswer ==
    /\ [](\A r \in Requests :
            (awaited[r] # Null /\ connResult[r].kind # "none") =>
                attempts[awaited[r]].state # "pending")
    /\ [][\A r \in Requests : Done(r) => (Done(r)' /\ resp'[r] = resp[r])]_vars
    /\ \A r \in Requests :
          (pc[r] # "idle") ~> (Done(r) /\ resp[r].status # 0)

C16_Witness ==
    /\ \A r \in 1..NumLiveRequests : Done(r) /\ resp[r].status # 0
    /\ Cardinality({r \in Requests : awaited[r] = 1}) >= 2
    /\ Len(attempts) >= 2

\* C17: every response has status 200, 400, 404 or 500; success is true
\* exactly when the status is 200, the body carries an event exactly when the
\* status is 200 and an error message exactly when it is not.
C17_ResponseShape ==
    \A r \in Requests :
        Done(r) =>
            /\ resp[r].status \in {200, 400, 404, 500}
            /\ resp[r].body.success <=> resp[r].status = 200
            /\ "event" \in DOMAIN resp[r].body <=> resp[r].status = 200
            /\ "error" \in DOMAIN resp[r].body <=> resp[r].status # 200

C17_Witness ==
    \E r1, r2, r3 \in Requests :
        /\ Done(r1) /\ resp[r1].status = 400
        /\ Done(r2) /\ resp[r2].status = 500
        /\ Done(r3) /\ resp[r3].status = 200

\* C18: cached.conn changes only from null to the result of a fulfilled
\* attempt; once set, no step of any connectDB call clears or replaces it.
C18_ConnOnlyFromFulfilledAttempt ==
    [][/\ cached.conn # Null => cached'.conn = cached.conn
       /\ cached'.conn # cached.conn =>
             \E i \in 1..Len(attempts) :
                 /\ attempts[i].state = "fulfilled"
                 /\ cached'.conn = HandleOf(i)
                 /\ \E r \in Requests :
                       awaited[r] = i /\ connResult[r].kind = "none"
                       /\ connResult'[r].kind = "returned"]_vars

C18_Witness ==
    /\ cached.conn # Null
    /\ Len(attempts) >= 3
    /\ attempts[1].state = "rejected"
    /\ attempts[2].state = "fulfilled"
    /\ attempts[3].state = "rejected"
    /\ \A r \in Requests : awaited[r] # Null /\ connResult[r].kind # "none"

====
